---- MODULE Spec2Model ----
(***************************************************************************)
(* cdx_toolkit: the retrying HTTP layer (myrequests_get), the bounded      *)
(* query (CDXFetcher.get), the paginated iterator (CDXFetcherIter with     *)
(* CDXFetcher.get_for_iter), the size estimate (get_size_estimate) and the *)
(* endpoint discovery (get_cc_endpoints), run against an index service     *)
(* whose answers are drawn from small sets.                                *)
(*                                                                         *)
(* One thread of control.  A step of the model is the code between two     *)
(* network calls: the caller's entry into an operation, one attempt of     *)
(* requests.get inside myrequests_get, the handling of a returned          *)
(* response, one pass through the head of get_more's loop, one __next__.   *)
(*                                                                         *)
(* A second specification, PairSpec, runs two iterators of one CDXFetcher  *)
(* side by side; its steps are whole page fetches and whole __next__       *)
(* calls.                                                                  *)
(***************************************************************************)
EXTENDS Integers, Sequences, FiniteSets, TLC

\* ------------------------------------------------------------------ bounds
MaxEndpoints == 2      \* len(index_list) ranges over 1..MaxEndpoints
MaxPages == 2          \* an endpoint has result pages only among 0..MaxPages-1
MaxRecords == 2        \* records the index service holds for the query, in all
MaxLimit == 1          \* a caller-supplied limit= ranges over 0..MaxLimit
MaxTransient == 1      \* transient failures the network injects in one run
MaxBlocks == 3         \* showNumPages: an endpoint reports 0..MaxBlocks pages

\* Page numbers above MaxPages are told apart by no endpoint (each has at
\* most MaxPages result pages and answers every later page alike), so the
\* cursor's page is kept exactly up to PageCap and merged above it.
PageCap == MaxPages + 1

\* ------------------------------------------------------- program constants
DefaultLimit == 10000
lines_per_page == 3000
MinEndpoints == 30

VARIABLES
    index_list,     \* number of endpoints of the CDXFetcher (indexes 0..n-1)
    tail,           \* server: tail[e+1] = the status endpoint e answers to a
                    \*         page it does not have
    transientsLeft, \* network: transient failures it may still inject
    op,             \* "none" | "items" | "get" | "estimate" | "cc": what the
                    \*         caller called
    pc,             \* position of the thread of control
    caller,         \* who called get_more: "init" (__init__) or "next" (__next__)
    hasLimit,       \* 'limit' in params
    limit,          \* params['limit']
    limit0,         \* the value params['limit'] had when the operation started
    hasPage,        \* 'page' in params
    hasParams,      \* params is a dict (not the default None of myrequests_get)
    kwLimit,        \* the caller's kwargs held limit=
    kwPage,         \* the caller's kwargs held page=
    as_pages,       \* get_size_estimate: its as_pages argument
    pages,          \* get_size_estimate: its running sum
    result,         \* get_size_estimate: the number it returned
    counts,         \* history: the page counts of the endpoints that answered
                    \*          200 to get_size_estimate, in order
    endpoint,       \* CDXFetcherIter.endpoint, or the position of get's for loop
    page,           \* CDXFetcherIter.page
    cdx_objs,       \* CDXFetcherIter.cdx_objs
    ret,            \* the list CDXFetcher.get builds
    req,            \* the request myrequests_get is sending: [ep, page]
    resp,           \* the last outcome of requests.get: [status, n, exc]
    exc,            \* the exception that left the operation, or "none"
    stopped,        \* history: __next__ has raised StopIteration
    delivered,      \* history: the records __next__ has returned, in order
    fetched,        \* history: the records of every page get_for_iter returned 'ok'
    exceeded,       \* history: endpoints that answered 400 to the iterator
    zeroPage,       \* history: endpoints that gave the iterator a 200 page of
                    \*          no records
    its,            \* PairSpec: its[i] = iterator i: the dict its params
                    \*          refers to, and its own fields
    heap,           \* PairSpec: heap[d] = the contents of dict d
    alone,          \* PairSpec: alone[i] = iterator i as it is after the same
                    \*          steps when it is the only one
    numPages,       \* PairSpec: numPages[e+1] = result pages of endpoint e
    pageSize        \* PairSpec: records on each result page

single == <<index_list, tail, transientsLeft, op, pc, caller,
            hasLimit, limit, limit0, hasPage, hasParams, kwLimit, kwPage,
            as_pages, pages, result, counts, endpoint, page, cdx_objs, ret,
            req, resp, exc, stopped, delivered, fetched, exceeded, zeroPage>>

pair == <<its, heap, alone, numPages, pageSize>>

vars == <<single, pair>>

server == <<index_list, tail>>
history == <<stopped, delivered, fetched, exceeded, zeroPage>>
kwargs == <<hasParams, kwLimit, kwPage>>
estimate == <<as_pages, pages, result, counts>>

\* ------------------------------------------------------------ the network
Tails == {400, 404, 500}
NetTransient == {502, 503, 504}
HardFaults == {"requests.ConnectionError", "requests.Timeout"}

NoReq == [ep |-> -1, page |-> -1]
\* The request of get_cc_endpoints, to the directory of the indices.
Directory == [ep |-> -1, page |-> 0]
NoResp == [status |-> 0, n |-> 0, exc |-> "none"]

Response(status, n) == [status |-> status, n |-> n, exc |-> "none"]
Raised(e) == [status |-> 0, n |-> 0, exc |-> e]

\* Records the service has not sent yet.
Room == MaxRecords - (Len(fetched) + Len(ret))

\* What the endpoint of request r answers when it is not failing.  To a
\* page request: a 200 page of any number of records (they need not respect
\* limit=) while the page may exist, or the status it gives to a page it
\* does not have.  To showNumPages: a 200 with its number of pages, or that
\* status.  The directory: a 200 listing one index too few or just enough,
\* or any of the statuses.
RealAnswers(r) ==
    IF r = Directory
    THEN {Response(200, n) : n \in {MinEndpoints - 1, MinEndpoints}}
             \cup {Response(s, 0) : s \in Tails}
    ELSE IF op = "estimate"
    THEN {Response(200, n) : n \in 0..MaxBlocks} \cup {Response(tail[r.ep + 1], 0)}
    ELSE (IF r.page < MaxPages THEN {Response(200, n) : n \in 0..Room} ELSE {})
             \cup {Response(tail[r.ep + 1], 0)}

\* Every outcome one call of requests.get(url, params) can have: an
\* answer, an injected transient failure, or an exception of the library.
Outcomes(r) ==
    RealAnswers(r)
        \cup (IF transientsLeft > 0
              THEN {Response(s, 0) : s \in NetTransient}
                       \cup {Raised("builtins.ConnectionError")}
              ELSE {})
        \cup {Raised(f) : f \in HardFaults}

IsInjected(o) == o.status \in NetTransient \/ o.exc = "builtins.ConnectionError"

\* The classes an exception is an instance of.
Bases(e) ==
    CASE e = "requests.ConnectionError" ->
             {"requests.ConnectionError", "requests.RequestException", "OSError"}
      [] e = "requests.Timeout" ->
             {"requests.Timeout", "requests.RequestException", "OSError"}
      [] e = "requests.HTTPError" ->
             {"requests.HTTPError", "requests.RequestException", "OSError"}
      [] e = "builtins.ConnectionError" -> {"builtins.ConnectionError", "OSError"}
      [] OTHER -> {e}

\* ---------------------------------------------------------- myrequests_get
\* `'page' not in params` is evaluated when the status is 400, and raises
\* TypeError when params is the default None.
PageTestFails(status, isDict) == status = 400 /\ ~isDict

InvalidUrl(status, pageKey) == status = 400 /\ ~pageKey

GivingUpOn404Only(status) == status \in {404}

GivingUp(status) == status \in {400, 404}

IsTransientWithout504(status) == status \in {503, 502}

IsTransientOnly503(status) == status \in {503}

IsTransient(status) == status \in {503, 502, 504}

\* resp.raise_for_status(): HTTPError for 4xx and 5xx.
RaiseForStatus(status) == status >= 400 /\ status < 600

\* The name ConnectionError in the except clause: the module imports
\* requests as a whole and nothing from it, so the name is the builtin.
RetriedClass == "builtins.ConnectionError"

\* One pass through the while loop of myrequests_get on outcome o of
\* requests.get: "return" resp, "retry" after the sleep, or "raise" exc.
Attempt(o, pageKey, isDict) ==
    LET thrown ==
            IF o.exc # "none" THEN o.exc
            ELSE IF PageTestFails(o.status, isDict) THEN "TypeError"
            ELSE IF InvalidUrl(o.status, pageKey) THEN "RuntimeError"
            ELSE IF GivingUp(o.status) THEN "none"
            ELSE IF IsTransient(o.status) THEN "none"
            ELSE IF RaiseForStatus(o.status) THEN "requests.HTTPError"
            ELSE "none"
    IN  IF thrown # "none"
        THEN IF RetriedClass \in Bases(thrown)
             THEN [act |-> "retry", exc |-> "none"]
             ELSE [act |-> "raise", exc |-> thrown]
        ELSE IF GivingUp(o.status) THEN [act |-> "return", exc |-> "none"]
        ELSE IF IsTransient(o.status) THEN [act |-> "retry", exc |-> "none"]
        ELSE [act |-> "return", exc |-> "none"]

\* -------------------------------------------------------------- cdx_to_json
\* The records of page p of endpoint e, in server order.
Records(e, p, n) == [i \in 1..n |-> <<e, p, i>>]

\* A 404 decodes to []; a 200 body decodes to its records; the html error
\* page of a 400 starts with neither '{' nor '[' and cannot be decoded.
CanDecode(o) == o.status # 400

cdx_to_json(o, r) == IF o.status = 404 THEN <<>> ELSE Records(r.ep, r.page, o.n)

\* ----------------------------------------------------------- size estimate
\* showNumPages(r): the 'blocks' of a pywb answer or the bare number of an
\* ia answer; either way the number of pages the endpoint reports.
showNumPages(o) == o.n

\* pages_to_samples in halves of a page, so that pages - 0.5 stays a whole
\* number: int(pages * lines_per_page) is the halves times lines_per_page,
\* divided by 2 and truncated.
pages_to_samples_without_half(p) ==
    LET halves == IF p >= 1 THEN 2 * p - 2 ELSE 2 * p
    IN  (halves * lines_per_page) \div 2

pages_to_samples(p) ==
    LET halves == IF p > 1 THEN 2 * p - 2
                  ELSE IF p >= 1 THEN 2 * p - 1
                  ELSE 2 * p
    IN  (halves * lines_per_page) \div 2

\* ------------------------------------------------------------ the iterator
LastEndpoint(e) == e >= index_list

LimitUsedUp(has, lim) == has /\ lim = 0

NextPageSkips(p) == IF p + 1 < PageCap THEN p + 2 ELSE PageCap

NextPage(p) == IF p < PageCap THEN p + 1 ELSE p

NextEndpointWraps(e) == (e + 1) % index_list

NextEndpoint(e) == e + 1

\* The status get_for_iter gives to a response myrequests_get returned.
EmptyPageIsLastPage(o) == IF o.status = 400 \/ o.n = 0 THEN "last page" ELSE "ok"

GetForIterStatus(o) == IF o.status = 400 THEN "last page" ELSE "ok"

\* params['limit'] -= len(ret)
DecrementByOne(lim, n) == lim - 1

Decrement(lim, n) == lim - n

StopCondition(objs) == Len(objs) <= 0

\* CDXFetcherIter.__init__: 'page' in params.
PageAllowed(withPage) == FALSE

ReservedPage(withPage) == withPage

\* The frame myrequests_get returns to.
ReturnTo(o) ==
    CASE o = "items" -> "iter_resp"
      [] o = "get" -> "get_resp"
      [] o = "estimate" -> "est_resp"
      [] OTHER -> "cc_resp"

PopLast(objs) == [item |-> objs[Len(objs)], rest |-> SubSeq(objs, 1, Len(objs) - 1)]

Pop0(objs) == [item |-> Head(objs), rest |-> Tail(objs)]

Extend(objs, more) == objs \o more

\* The sum of a sequence of numbers.
RECURSIVE Sum(_)
Sum(s) == IF s = <<>> THEN 0 ELSE Head(s) + Sum(Tail(s))

\* ------------------------------------------------------ two iterators
\* The iterators of PairSpec, and the dicts their items() calls may bind
\* to kwargs.
Iters == {1, 2}

NoDict == [hasLimit |-> FALSE, limit |-> 0, page |-> -1]

NoIter == [params |-> 0, pc |-> "start", caller |-> "init", endpoint |-> 0,
           page |-> -1, cdx_objs |-> <<>>, delivered |-> <<>>,
           stopped |-> FALSE]

\* An iterator with what it reads in its params: its cursor, its limit, its
\* buffer and what it has delivered.
View(it, dict) ==
    [pc |-> it.pc, caller |-> it.caller, hasLimit |-> dict.hasLimit,
     limit |-> dict.limit, endpoint |-> it.endpoint, page |-> it.page,
     cdx_objs |-> it.cdx_objs, delivered |-> it.delivered,
     stopped |-> it.stopped]

Idle ==
    /\ index_list \in 1..MaxEndpoints
    /\ tail \in [1..index_list -> Tails]
    /\ transientsLeft = MaxTransient
    /\ op = "none"
    /\ pc = "start"
    /\ caller = "init"
    /\ hasLimit = FALSE
    /\ limit = 0
    /\ limit0 = 0
    /\ hasPage = FALSE
    /\ hasParams = FALSE
    /\ kwLimit = FALSE
    /\ kwPage = FALSE
    /\ as_pages = FALSE
    /\ pages = 0
    /\ result = 0
    /\ counts = <<>>
    /\ endpoint = 0
    /\ page = -1
    /\ cdx_objs = <<>>
    /\ ret = <<>>
    /\ req = NoReq
    /\ resp = NoResp
    /\ exc = "none"
    /\ stopped = FALSE
    /\ delivered = <<>>
    /\ fetched = <<>>
    /\ exceeded = {}
    /\ zeroPage = {}
    /\ its = [i \in Iters |-> NoIter]
    /\ heap = [d \in Iters |-> NoDict]
    /\ alone = [i \in Iters |-> View(NoIter, NoDict)]

Init ==
    /\ Idle
    /\ numPages = [e \in 1..index_list |-> 0]
    /\ pageSize = 0

\* CDXFetcher.items(url, **kwargs) and CDXFetcherIter.__init__ up to its
\* call of get_more: kwargs may hold limit= and may hold page=.
CallItems ==
    /\ pc = "start"
    /\ \E withLimit \in BOOLEAN, lim \in 0..MaxLimit, withPage \in BOOLEAN :
        /\ withLimit \/ lim = 0
        /\ op' = "items"
        /\ hasLimit' = withLimit
        /\ limit' = lim
        /\ limit0' = lim
        /\ hasParams' = TRUE
        /\ kwLimit' = withLimit
        /\ kwPage' = withPage
        /\ IF ReservedPage(withPage)
           THEN /\ pc' = "error"
                /\ exc' = "ValueError"
                /\ hasPage' = TRUE
                /\ UNCHANGED <<endpoint, page, cdx_objs, caller>>
           ELSE /\ pc' = "get_more"
                /\ exc' = "none"
                /\ hasPage' = TRUE
                /\ endpoint' = 0
                /\ page' = -1
                /\ cdx_objs' = <<>>
                /\ caller' = "init"
    /\ UNCHANGED pair
    /\ UNCHANGED <<server, estimate, transientsLeft, ret, req, resp, history>>

\* The rest of __next__ once get_more has returned to it.
AfterGetMore ==
    IF caller = "init"
    THEN /\ pc' = "ready"
         /\ UNCHANGED <<cdx_objs, stopped, delivered>>
    ELSE IF StopCondition(cdx_objs)
    THEN /\ pc' = "ready"
         /\ stopped' = TRUE
         /\ UNCHANGED <<cdx_objs, delivered>>
    ELSE /\ pc' = "ready"
         /\ cdx_objs' = Pop0(cdx_objs).rest
         /\ delivered' = Append(delivered, Pop0(cdx_objs).item)
         /\ UNCHANGED stopped

\* One pass through the head of get_more's loop: page += 1, then
\* get_for_iter up to its call of myrequests_get, or its 'last endpoint'
\* and get_more's return to __init__ or __next__.  (rewind: whether the
\* return puts the cursor back on the first endpoint; the code never does.)
GetMoreBody(rewind) ==
    /\ pc = "get_more"
    /\ IF LastEndpoint(endpoint) \/ LimitUsedUp(hasLimit, limit)
       THEN /\ AfterGetMore
            /\ endpoint' = IF rewind THEN 0 ELSE endpoint
            /\ page' = IF rewind THEN -1 ELSE NextPage(page)
            /\ UNCHANGED req
       ELSE /\ pc' = "http"
            /\ page' = NextPage(page)
            /\ req' = [ep |-> endpoint, page |-> page']
            /\ UNCHANGED <<endpoint, cdx_objs, stopped, delivered>>
    /\ UNCHANGED pair
    /\ UNCHANGED <<server, kwargs, estimate, transientsLeft, op, caller, hasLimit, limit, limit0,
                   hasPage, ret, resp, exc, fetched, exceeded, zeroPage>>

GetMoreRewinds == GetMoreBody(TRUE)

GetMore == GetMoreBody(FALSE)

\* One pass through the loop of myrequests_get: requests.get and the
\* classification of its outcome.
HttpAttempt ==
    /\ pc = "http"
    /\ \E o \in Outcomes(req) :
        LET a == Attempt(o, hasPage, hasParams) IN
        /\ resp' = o
        /\ transientsLeft' = IF IsInjected(o) THEN transientsLeft - 1
                             ELSE transientsLeft
        /\ pc' = CASE a.act = "retry" -> "http"
                   [] a.act = "raise" -> "error"
                   [] OTHER -> ReturnTo(op)
        /\ exc' = a.exc
    /\ UNCHANGED pair
    /\ UNCHANGED <<server, kwargs, estimate, op, caller, hasLimit, limit, limit0, hasPage,
                   endpoint, page, cdx_objs, ret, req, history>>

\* get_for_iter from the return of myrequests_get, and get_more's handling
\* of its status up to the next pass of the loop.
GetForIterResp ==
    /\ pc = "iter_resp"
    /\ pc' = "get_more"
    /\ zeroPage' = IF resp.status = 200 /\ resp.n = 0
                   THEN zeroPage \cup {endpoint} ELSE zeroPage
    /\ IF GetForIterStatus(resp) = "last page"
       THEN /\ endpoint' = NextEndpoint(endpoint)
            /\ page' = -1
            /\ exceeded' = IF resp.status = 400 THEN exceeded \cup {endpoint}
                           ELSE exceeded
            /\ UNCHANGED <<limit, cdx_objs, fetched>>
       ELSE LET objs == cdx_to_json(resp, req) IN
            /\ limit' = IF hasLimit THEN Decrement(limit, Len(objs)) ELSE limit
            /\ cdx_objs' = Extend(cdx_objs, objs)
            /\ fetched' = fetched \o objs
            /\ UNCHANGED <<endpoint, page, exceeded>>
    /\ UNCHANGED pair
    /\ UNCHANGED <<server, kwargs, estimate, transientsLeft, op, caller, hasLimit, limit0, hasPage,
                   ret, req, resp, exc, stopped, delivered>>

\* CDXFetcherIter.__next__ up to its return, its StopIteration or its call
\* of get_more.
Next__ ==
    /\ pc = "ready"
    /\ op = "items"
    /\ IF Len(cdx_objs) > 0
       THEN /\ cdx_objs' = Pop0(cdx_objs).rest
            /\ delivered' = Append(delivered, Pop0(cdx_objs).item)
            /\ UNCHANGED <<pc, caller>>
       ELSE /\ pc' = "get_more"
            /\ caller' = "next"
            /\ UNCHANGED <<cdx_objs, delivered>>
    /\ UNCHANGED pair
    /\ UNCHANGED <<server, kwargs, estimate, transientsLeft, op, hasLimit, limit, limit0, hasPage,
                   endpoint, page, ret, req, resp, exc, stopped, fetched,
                   exceeded, zeroPage>>

\* The break of get's endpoint loop: params['limit'] <= 0.
GetBreaksBelowZero(lim) == lim < 0

GetBreaks(lim) == lim <= 0

\* CDXFetcher.get(url, **kwargs) up to its first call of myrequests_get:
\* kwargs may hold limit= and may hold page=0.
CallGet ==
    /\ pc = "start"
    /\ \E withLimit \in BOOLEAN, lim \in 0..MaxLimit, withPage \in BOOLEAN :
        /\ withLimit \/ lim = 0
        /\ hasLimit' = TRUE
        /\ limit' = IF withLimit THEN lim ELSE DefaultLimit
        /\ limit0' = limit'
        /\ hasPage' = withPage
        /\ hasParams' = TRUE
        /\ kwLimit' = withLimit
        /\ kwPage' = withPage
    /\ op' = "get"
    /\ ret' = <<>>
    /\ endpoint' = 0
    /\ req' = [ep |-> 0, page |-> 0]
    /\ pc' = "http"
    /\ UNCHANGED pair
    /\ UNCHANGED <<server, estimate, transientsLeft, caller, page, cdx_objs,
                   resp, exc, history>>

\* CDXFetcher.get from the return of myrequests_get to the next one, or to
\* its return.
GetResp ==
    /\ pc = "get_resp"
    /\ IF ~CanDecode(resp)
       THEN /\ pc' = "error"
            /\ exc' = "ValueError"
            /\ UNCHANGED <<ret, limit, endpoint, req>>
       ELSE LET objs == cdx_to_json(resp, req) IN
            /\ ret' = Extend(ret, objs)
            /\ limit' = IF hasLimit THEN limit - Len(objs) ELSE limit
            /\ exc' = "none"
            /\ IF (hasLimit /\ GetBreaks(limit')) \/ endpoint + 1 >= index_list
               THEN /\ pc' = "done"
                    /\ UNCHANGED <<endpoint, req>>
               ELSE /\ pc' = "http"
                    /\ endpoint' = endpoint + 1
                    /\ req' = [ep |-> endpoint + 1, page |-> 0]
    /\ UNCHANGED pair
    /\ UNCHANGED <<server, kwargs, estimate, transientsLeft, op, caller, hasLimit, limit0, hasPage,
                   page, cdx_objs, resp, history>>

\* get_size_estimate(url, as_pages, **kwargs) up to its first call of
\* myrequests_get: kwargs may hold page=.
CallEstimate ==
    /\ pc = "start"
    /\ \E asPages \in BOOLEAN, withPage \in BOOLEAN :
        /\ as_pages' = asPages
        /\ hasPage' = withPage
        /\ kwPage' = withPage
    /\ op' = "estimate"
    /\ hasParams' = TRUE
    /\ pages' = 0
    /\ endpoint' = 0
    /\ req' = [ep |-> 0, page |-> 0]
    /\ pc' = "http"
    /\ UNCHANGED pair
    /\ UNCHANGED <<server, transientsLeft, caller, hasLimit, limit, limit0,
                   kwLimit, result, counts, page, cdx_objs, ret, resp, exc,
                   history>>

\* get_size_estimate from the return of myrequests_get to the next one, or
\* to its return.
EstimateResp ==
    /\ pc = "est_resp"
    /\ pages' = IF resp.status = 200 THEN pages + showNumPages(resp) ELSE pages
    /\ counts' = IF resp.status = 200 THEN Append(counts, resp.n) ELSE counts
    /\ IF endpoint + 1 >= index_list
       THEN /\ pc' = "done"
            /\ result' = IF as_pages THEN pages' ELSE pages_to_samples(pages')
            /\ UNCHANGED <<endpoint, req>>
       ELSE /\ pc' = "http"
            /\ endpoint' = endpoint + 1
            /\ req' = [ep |-> endpoint + 1, page |-> 0]
            /\ UNCHANGED result
    /\ UNCHANGED pair
    /\ UNCHANGED <<server, kwargs, transientsLeft, op, caller, hasLimit, limit,
                   limit0, hasPage, as_pages, page, cdx_objs, ret, resp, exc,
                   history>>

\* get_cc_endpoints(cc_duration, cc_sort) up to its call of myrequests_get,
\* which gets the url alone: params stays the default None.
CallGetCcEndpoints ==
    /\ pc = "start"
    /\ op' = "cc"
    /\ hasParams' = FALSE
    /\ hasPage' = FALSE
    /\ req' = Directory
    /\ pc' = "http"
    /\ UNCHANGED pair
    /\ UNCHANGED <<server, estimate, transientsLeft, caller, hasLimit, limit,
                   limit0, kwLimit, kwPage, endpoint, page, cdx_objs, ret, resp,
                   exc, history>>

\* get_cc_endpoints from the return of myrequests_get: the status, the
\* number of indices listed, the cc_duration argument.
CcResp ==
    /\ pc = "cc_resp"
    /\ \E durationOk \in BOOLEAN :
        IF resp.status # 200
        THEN pc' = "error" /\ exc' = "RuntimeError"
        ELSE IF resp.n < MinEndpoints \/ ~durationOk
        THEN pc' = "error" /\ exc' = "ValueError"
        ELSE pc' = "done" /\ exc' = "none"
    /\ UNCHANGED pair
    /\ UNCHANGED <<server, kwargs, estimate, transientsLeft, op, caller, hasLimit,
                   limit, limit0, hasPage, endpoint, page, cdx_objs, ret, req,
                   resp, history>>

Next ==
    \/ CallItems
    \/ GetMore
    \/ HttpAttempt
    \/ GetForIterResp
    \/ Next__
    \/ CallGet
    \/ GetResp
    \/ CallEstimate
    \/ EstimateResp
    \/ CallGetCcEndpoints
    \/ CcResp

Spec == Init /\ [][Next]_vars

\* The thread runs on while it can; the consumer keeps calling next().
FairSpec == Spec /\ WF_vars(Next)

\* ------------------------------------------------- PairSpec: two iterators
\* The dict items() of iterator i works on: **kwargs is a new dict on every
\* call, and items passes it on as params.
SharedParams(i) == 1

NewParams(i) == i

ViewOf(i) == View(its[i], IF its[i].params = 0 THEN NoDict ELSE heap[its[i].params])

\* The fields of view v an iterator with params d keeps in itself.
Own(v, d) ==
    [params |-> d, pc |-> v.pc, caller |-> v.caller, endpoint |-> v.endpoint,
     page |-> v.page, cdx_objs |-> v.cdx_objs, delivered |-> v.delivered,
     stopped |-> v.stopped]

\* The answer of PairSpec's server to request r: a page of pageSize
\* records while the endpoint has the page, then its tail status.
Answer(r) ==
    IF r.page < numPages[r.ep + 1] THEN Response(200, pageSize)
    ELSE Response(tail[r.ep + 1], 0)

\* get_for_iter returns without a request.
NoRequest(v) == LastEndpoint(v.endpoint) \/ LimitUsedUp(v.hasLimit, v.limit)

\* get_more has returned to __init__ or to __next__, which goes on.
ReturnOf(v) ==
    IF v.caller = "init" THEN [v EXCEPT !.pc = "ready"]
    ELSE IF StopCondition(v.cdx_objs)
    THEN [v EXCEPT !.pc = "ready", !.stopped = TRUE]
    ELSE [v EXCEPT !.pc = "ready",
                   !.cdx_objs = Pop0(v.cdx_objs).rest,
                   !.delivered = Append(v.delivered, Pop0(v.cdx_objs).item)]

\* One pass through get_more's loop, the request and its answer included.
FetchOf(v) ==
    IF NoRequest(v) THEN [ReturnOf(v) EXCEPT !.page = NextPage(v.page)]
    ELSE LET r == [ep |-> v.endpoint, page |-> NextPage(v.page)]
             o == Answer(r)
             a == Attempt(o, TRUE, TRUE)
             objs == cdx_to_json(o, r)
         IN  IF a.act = "raise" THEN [v EXCEPT !.pc = "error", !.page = r.page]
             ELSE IF GetForIterStatus(o) = "last page"
             THEN [v EXCEPT !.endpoint = NextEndpoint(v.endpoint), !.page = -1]
             ELSE [v EXCEPT !.page = r.page,
                            !.limit = IF v.hasLimit
                                      THEN Decrement(v.limit, Len(objs))
                                      ELSE v.limit,
                            !.cdx_objs = Extend(v.cdx_objs, objs)]

\* __next__ up to its return or its call of get_more.
NextOf(v) ==
    IF Len(v.cdx_objs) > 0
    THEN [v EXCEPT !.cdx_objs = Pop0(v.cdx_objs).rest,
                   !.delivered = Append(v.delivered, Pop0(v.cdx_objs).item)]
    ELSE [v EXCEPT !.pc = "get_more", !.caller = "next"]

\* The service holds at most MaxPages result pages and MaxRecords records
\* in all.
PairInit ==
    /\ Idle
    /\ numPages \in [1..index_list -> 0..MaxPages]
    /\ pageSize \in 0..MaxRecords
    /\ Sum(numPages) <= MaxPages
    /\ pageSize * Sum(numPages) <= MaxRecords

\* items(url, **kwargs) of iterator i, up to __init__'s call of get_more.
PairItems(i) ==
    /\ its[i].pc = "start"
    /\ \E withLimit \in BOOLEAN, lim \in 0..MaxLimit :
        LET d == NewParams(i)
            v == [View(NoIter, NoDict) EXCEPT !.pc = "get_more",
                                              !.hasLimit = withLimit,
                                              !.limit = lim]
        IN  /\ withLimit \/ lim = 0
            /\ heap' = [heap EXCEPT ![d] = [hasLimit |-> withLimit,
                                            limit |-> lim, page |-> -1]]
            /\ its' = [its EXCEPT ![i] = Own(v, d)]
            /\ alone' = [alone EXCEPT ![i] = v]
    /\ UNCHANGED <<single, numPages, pageSize>>

\* One page fetch of iterator i: a pass through get_more's loop.
PairGetMore(i) ==
    /\ its[i].pc = "get_more"
    /\ LET d == its[i].params
           v == FetchOf(ViewOf(i))
       IN  /\ its' = [its EXCEPT ![i] = Own(v, d)]
           /\ heap' = [heap EXCEPT ![d] =
                           [hasLimit |-> v.hasLimit, limit |-> v.limit,
                            page |-> IF NoRequest(ViewOf(i)) THEN @.page
                                     ELSE NextPage(its[i].page)]]
    /\ alone' = [alone EXCEPT ![i] = FetchOf(@)]
    /\ UNCHANGED <<single, numPages, pageSize>>

\* One next() on iterator i.
PairNext__(i) ==
    /\ its[i].pc = "ready"
    /\ its' = [its EXCEPT ![i] = Own(NextOf(ViewOf(i)), its[i].params)]
    /\ alone' = [alone EXCEPT ![i] = NextOf(@)]
    /\ UNCHANGED <<single, heap, numPages, pageSize>>

PairNext ==
    \E i \in Iters :
        \/ PairItems(i)
        \/ PairGetMore(i)
        \/ PairNext__(i)

PairSpec == PairInit /\ [][PairNext]_vars

\* ------------------------------------------------------------------ claims
AllTails(status) == \A e \in 1..index_list : tail[e] = status

Iterating == op = "items" /\ pc # "error"

NetworkFailed == pc = "error" /\ exc \in HardFaults

\* <<e, p, i>> before <<f, q, j>>: endpoint order, then page, then server order.
Before(a, b) ==
    \/ a[1] < b[1]
    \/ a[1] = b[1] /\ a[2] < b[2]
    \/ a[1] = b[1] /\ a[2] = b[2] /\ a[3] < b[3]

InOrder(s) == \A i \in 1..Len(s) : \A j \in 1..Len(s) : i < j => Before(s[i], s[j])

\* C1: with a limit L, one iteration delivers at most L records and one
\* bounded query returns at most L records, whatever the endpoints send.
C1_LimitBoundsDelivered ==
    /\ (op = "items" /\ hasLimit) => Len(delivered) <= limit0
    /\ (op = "get" /\ pc = "done") => Len(ret) <= limit0

\* C2: once the iteration has reported end-of-sequence, the delivered
\* sequence is the concatenation of the records of every page fetched, and
\* these stand in endpoint order, then page order, then server order.
C2_DeliveredIsConcatenation ==
    (op = "items" /\ stopped) => (delivered = fetched /\ InOrder(fetched))

C2_Witness ==
    /\ op = "items" /\ stopped
    /\ Len(delivered) >= 2
    /\ \E i, j \in 1..Len(delivered) : delivered[i][1] = 0 /\ delivered[j][1] = 1

\* C3: the endpoint indexes of the iteration's requests start at 0 and never
\* decrease, and no request goes to an endpoint the cursor has left.
C3_EndpointOrder ==
    [][(op' = "items" /\ pc' = "http") =>
          /\ IF req = NoReq THEN req'.ep = 0 ELSE req'.ep >= req.ep
          /\ \A i \in exceeded' : i < req'.ep]_vars

C3_Witness == op = "items" /\ pc = "http" /\ req.ep = 1 /\ exceeded = {0}
\* C4: when every endpoint answers page-exceeded (400) to a page it does
\* not have, an iteration whose consumer keeps calling next() reports
\* end-of-sequence, with every fetched record delivered, unless the network
\* library raised.
C4_IterationEnds ==
    (Iterating /\ AllTails(400)) ~> ((stopped /\ delivered = fetched) \/ NetworkFailed)

C4_Witness ==
    /\ op = "items" /\ stopped /\ AllTails(400)
    /\ index_list = 2 /\ exceeded = {0, 1}
    /\ Len(delivered) >= 2 /\ delivered = fetched

\* C5: the iterator sends a page request only while its buffer is empty.
C5_NoFetchWhileBuffered == (op = "items" /\ pc = "http") => cdx_objs = <<>>

\* C6: an iteration whose endpoints answer 404 to every page request reports
\* end-of-sequence with no record delivered (unless an endpoint did serve a
\* page, or the network library raised).
C6_NotFoundEnds ==
    (Iterating /\ AllTails(404))
        ~> \/ stopped /\ delivered = <<>>
           \/ fetched # <<>> \/ zeroPage # {}
           \/ NetworkFailed

\* After a 200 page of no records from page p of endpoint e, the next step
\* of get_more requests page p+1 of e.
ZeroPageFetchesNext ==
    (/\ op = "items" /\ pc = "get_more"
     /\ resp = Response(200, 0)
     /\ req = [ep |-> endpoint, page |-> page])
        => (pc' = "http" /\ req' = [ep |-> req.ep, page |-> req.page + 1] /\ ~stopped')

\* C7 as stated: after a 200 page of no records the next request is the next
\* page of the same endpoint, and end-of-sequence is not reported before
\* that endpoint has answered page-exceeded.
C7_ZeroPageNeverEnds ==
    [][/\ ZeroPageFetchesNext
       /\ stopped' => \A e \in zeroPage' : e \in exceeded']_vars

\* C7 as amended: ... and end-of-sequence is not reported before that
\* endpoint has answered page-exceeded or the remaining limit has reached 0.
C7_ZeroPageEndsOnlyByLimit ==
    [][/\ ZeroPageFetchesNext
       /\ stopped' => \/ \A e \in zeroPage' : e \in exceeded'
                      \/ LimitUsedUp(hasLimit', limit')]_vars

C7_Witness ==
    /\ op = "items" /\ pc = "http"
    /\ req.ep \in zeroPage /\ req.page = 1
    /\ hasLimit /\ limit # 0

\* C8: once next() has reported end-of-sequence, no step delivers a record,
\* refills the buffer or prepares a request, and each later next() ends in
\* end-of-sequence again.
C8_ExhaustedIsTerminal ==
    [][stopped =>
          /\ stopped'
          /\ delivered' = delivered
          /\ cdx_objs' = <<>>
          /\ pc' \in {"ready", "get_more"}
          /\ req' = req /\ resp' = resp]_vars

C8_Witness ==
    /\ op = "items" /\ stopped /\ pc = "ready" /\ caller = "next"
    /\ page = PageCap /\ Len(delivered) >= 1

\* C9: a 502, 503 or 504 answer is never returned to the caller and never
\* raised; the attempt after it sends the same request; and every call of
\* myrequests_get comes to an end once the transient failures stop.
C9_TransientIsRetried ==
    /\ [][(pc = "http" /\ resp'.status \in NetTransient)
             => (pc' = "http" /\ req' = req /\ exc' = "none")]_vars
    /\ [](pc \in {"iter_resp", "get_resp", "error"} => resp.status \notin NetTransient)
    /\ (pc = "http" ~> pc # "http")

C9_Witness ==
    /\ pc = "http" /\ resp.status \in NetTransient /\ transientsLeft < MaxTransient
    /\ req.ep = 1

\* C10: a connection failure raised by the requests library never leaves
\* myrequests_get as an error.
C10_ConnectionFailureIsRetried ==
    ~(pc = "error" /\ exc = "requests.ConnectionError")

\* The frames myrequests_get returns to.
ReturnFrames == {"iter_resp", "get_resp", "est_resp", "cc_resp"}

\* C11: a 400 answer to a request with no page key raises the invalid-url
\* RuntimeError; a 400 answer to a request with a page key, and any 404
\* answer, is returned at once; any other 4xx/5xx status outside 502, 503,
\* 504 raises the HTTPError of raise_for_status; none of them is retried.
C11_StatusClassification ==
    [][pc = "http" =>
          /\ (resp'.status = 400 /\ ~hasPage)
                 => (pc' = "error" /\ exc' = "RuntimeError")
          /\ ((resp'.status = 400 /\ hasPage) \/ resp'.status = 404)
                 => (pc' \in ReturnFrames /\ exc' = "none")
          /\ (resp'.status \in (400..599) \ ({400, 404} \cup NetTransient))
                 => (pc' = "error" /\ exc' = "requests.HTTPError")]_vars

\* C12: get_size_estimate never raises because of an endpoint's status, and
\* with as_pages=True it returns the sum of the page counts of the
\* endpoints that answered 200.
C12_EstimateSkipsStatuses ==
    /\ (op = "estimate" /\ pc = "error") => exc \in HardFaults
    /\ (op = "estimate" /\ pc = "done" /\ as_pages) => result = Sum(counts)

\* C13: without as_pages, get_size_estimate returns, for the page count n
\* summed over all endpoints, 0 when n = 0, 1500 when n = 1 and (n-1)*3000
\* when n > 1.
C13_PagesToSamples ==
    (op = "estimate" /\ pc = "done" /\ ~as_pages) =>
        result = (CASE Sum(counts) = 0 -> 0
                    [] Sum(counts) = 1 -> 1500
                    [] OTHER -> (Sum(counts) - 1) * 3000)

C13_Witness ==
    /\ op = "estimate" /\ pc = "done" /\ ~as_pages
    /\ Len(counts) = 2 /\ counts[1] >= 1 /\ Sum(counts) = 5 /\ result = 12000

\* C14: get applies a limit of 10000 when the caller gives none, sends its
\* requests to endpoints 0, 1, 2, ... in that order, one request (retries
\* aside) to each, and sends a request to a later endpoint only while the
\* remaining limit is above zero.
C14_GetStopsAtLimit ==
    /\ []((op = "get" /\ ~kwLimit) => limit0 = 10000)
    /\ []((op = "get" /\ pc = "http") => req.ep = endpoint /\ req.ep < index_list)
    /\ [][(op' = "get" /\ pc' = "http")
            => \/ pc = "start" /\ req'.ep = 0
               \/ pc = "http" /\ req' = req
               \/ pc = "get_resp" /\ req'.ep = req.ep + 1 /\ limit' > 0]_vars

C14_Witness ==
    /\ op = "get" /\ pc = "done" /\ kwLimit
    /\ limit = 0 /\ Len(ret) >= 1 /\ endpoint + 1 < index_list

\* C15: items() called with page= fails with an error before any request is
\* sent, and items() called without page= never fails with that error.
C15_PageIsReserved ==
    /\ (op = "items" /\ kwPage)
           => (pc = "error" /\ exc = "ValueError" /\ req = NoReq /\ resp = NoResp)
    /\ (op = "items" /\ ~kwPage /\ pc = "error") => exc # "ValueError"

C15_Witness == op = "items" /\ kwPage /\ pc = "error" /\ exc = "ValueError"

\* C17: the iterator's endpoint stays within 0..len(index_list); a request
\* is sent only for an endpoint below len(index_list), and it is the
\* request for the cursor's endpoint and page; the first request to an
\* endpoint is for page 0 and each later one for the page after the last
\* (the model stops counting pages at PageCap).
C17_CursorWalk ==
    /\ [](op = "items" => endpoint \in 0..index_list)
    /\ []((op = "items" /\ pc = "http")
             => (endpoint < index_list /\ req = [ep |-> endpoint, page |-> page]))
    /\ [][(op = "items" /\ pc = "get_more" /\ pc' = "http")
            => IF req = NoReq THEN req' = [ep |-> 0, page |-> 0]
               ELSE IF endpoint # req.ep
               THEN req' = [ep |-> req.ep + 1, page |-> 0]
               ELSE IF req.page < PageCap
               THEN req' = [ep |-> req.ep, page |-> req.page + 1]
               ELSE req' = req]_vars

C17_Witness ==
    /\ op = "items" /\ pc = "http"
    /\ exceeded = {0} /\ req = [ep |-> 1, page |-> 1]

\* C18: with limit= given, the limit an iteration holds, and sends with a
\* page request, is the initial limit less the number of records of every
\* page fetched so far; an answer of 400 leaves it as it was.
C18_LimitIsBudget ==
    /\ []((op = "items" /\ hasLimit) => limit = limit0 - Len(fetched))
    /\ [][(op = "items" /\ pc = "iter_resp" /\ resp.status = 400)
            => limit' = limit]_vars

C18_Witness ==
    /\ op = "items" /\ hasLimit /\ pc = "http"
    /\ Len(fetched) >= 1 /\ exceeded # {} /\ req.ep >= 1

\* C19: once the records fetched have used up the limit, the iterator
\* sends no further page request.
C19_NoRequestAfterLimit ==
    (op = "items" /\ hasLimit /\ Len(fetched) >= limit0) => pc # "http"

\* C20: an answer of 502, 503 or 504 to an iteration's request leaves the
\* request in flight and changes nothing else: the cursor, the limit, the
\* buffer, the records fetched and delivered are as they were, so the run
\* without these answers makes the same steps.
C20_RetryKeepsProgress ==
    [][(op = "items" /\ pc = "http" /\ resp'.status \in NetTransient)
         => /\ pc' = "http"
            /\ UNCHANGED <<server, kwargs, estimate, op, caller, hasLimit,
                           limit, limit0, hasPage, endpoint, page, cdx_objs,
                           ret, req, exc, history>>]_vars

C20_Witness ==
    /\ op = "items" /\ pc = "http" /\ resp.status \in NetTransient
    /\ Len(cdx_objs) >= 1 /\ req.page >= 1

\* C16: two iterators from separate items() calls on one CDXFetcher: under
\* every interleaving of their page fetches and next() calls, each one's
\* cursor, limit, buffer and delivered records are what they are when it
\* makes the same steps alone.
C16_IteratorsAreIndependent == \A i \in Iters : ViewOf(i) = alone[i]

C16_Witness ==
    /\ its[1].pc = "get_more" /\ its[1].page >= 0 /\ Len(its[1].cdx_objs) >= 1
    /\ Len(its[2].delivered) >= 1
    /\ heap[its[1].params].hasLimit /\ ~heap[its[2].params].hasLimit

====
